---- MODULE Spec2Model ----
(***************************************************************************)
(* A model of the A2A samples: the calendar agent's authorization          *)
(* suspension loop (samples/python/agents/calendar/agent.py, helpers.py),  *)
(* the OAuth2 bearer-token middleware                                      *)
(* (samples/python/agents/headless_agent_auth/oauth2_middleware.py) and    *)
(* the birthday agent's delegation client, send_task and convert_part      *)
(* (samples/python/agents/birthday/agent.py).                              *)
(*                                                                         *)
(* Strings are modelled as sequences of pieces where the code concatenates *)
(* or splits them; the executor (google.adk Runner.run_async) and the      *)
(* token verifier (auth0 ApiClient) are external and nondeterministic.     *)
(***************************************************************************)
EXTENDS Integers, Sequences, FiniteSets, TLC

\* Python's None.
None == "None"

(***************************************************************************)
(* Part 1.  CalendarAgent                                                  *)
(***************************************************************************)

\* Concurrent delegation streams (calls of CalendarAgent.stream).
Streams == {"A", "B"}
\* Values of the `state` query parameter of an authorization URI.
Tokens == {"t1", "t2"}
\* Authorization response URIs a callback can deliver.
Uris == {"cb1", "cb2"}
\* Session ids a delegation caller may name.  Ids are interchangeable, so
\* stream A's is fixed; stream B names the same session or another one.
Sessions == {"s1", "s2"}
SessionChoices(s) == IF s = "A" THEN {"s1"} ELSE Sessions
\* Function-call ids of the executor.
FcIds == {"f1", "f2"}
\* Events the executor may emit in one behaviour, over all streams.
MaxEvents == 2

\* The reserved function name of an authorization request.
Marker == "adk_request_credential"
\* AgentCard.url of the serving agent.
CardUrl == "http://localhost:10007/"

\* An executor event, reduced to what the loop reads:
\*   fcname/fcid  the function call of the event's part (None: no function call)
\*   longrun      fcid is in event.long_running_tool_ids
\*   cfg          shape of the function call's args: "ok", "noargs" (no
\*                auth_config), "nouri" (empty auth_uri), "nostate" (no `state`
\*                query parameter)
\*   token        the `state` parameter of auth_uri when cfg = "ok"
\*   final        event.is_final_response()
\*   text         text of the first part (None: no text)
Ev(n, i, l, c, t, f, x) ==
  [fcname |-> n, fcid |-> i, longrun |-> l, cfg |-> c, token |-> t,
   final |-> f, text |-> x]

PlainEvents ==
  {Ev(None, None, FALSE, None, None, FALSE, None),
   Ev(None, None, FALSE, None, None, TRUE, None),
   Ev(None, None, FALSE, None, None, TRUE, "Booked")}
ToolEvents ==
  {Ev("list_events", "f1", TRUE, None, None, f, None) : f \in BOOLEAN}
MarkerNotLongRunning ==
  {Ev(Marker, "f1", FALSE, "ok", "t1", f, "Sign in") : f \in BOOLEAN}
AuthEventsOk ==
  {Ev(Marker, i, TRUE, "ok", t, TRUE, None) : i \in FcIds, t \in Tokens}
AuthEventsBad ==
  {Ev(Marker, "f1", TRUE, c, None, TRUE, None) : c \in {"noargs", "nouri", "nostate"}}
    \cup {Ev(Marker, "", TRUE, "ok", "t1", TRUE, None)}
Events ==
  PlainEvents \cup ToolEvents \cup MarkerNotLongRunning \cup AuthEventsOk
    \cup AuthEventsBad

VARIABLES
  waiting_sessions, \* CalendarAgent._waiting_sessions: dict token -> future
  pc,               \* per stream: "idle", "running", "awaiting", "ended",
                    \*   "failed", "cancelled"
  sid,              \* per stream: the session_id stream() was called with
  nev,              \* executor events consumed so far, over all streams
  depth,            \* per stream: nesting of _process_events (0 = outermost)
  content,          \* per stream: new_message of the current run_async call
  frame,            \* per stream: locals of the innermost _process_events
  fresult,          \* per stream: result of the innermost frame's future
  chunks,           \* per stream: the chunks yielded to the delegation caller
  err,              \* per stream: the exception that ended the stream
  cb,               \* outcome of the latest handle_auth call
  mw_pc,            \* middleware: "new", "ready", "verifying", "init_failed"
  card_security,    \* AgentCard.security as given to OAuth2Middleware
  public_paths,     \* OAuth2Middleware.public_paths
  a2a_auth,         \* OAuth2Middleware.a2a_auth
  request,          \* the request being dispatched (or the last one)
  access_token,     \* dispatch's local access_token
  verifier_result,  \* what verify_access_token did for this request
  verifier_calls,   \* calls of verify_access_token for this request
  forwarded,        \* call_next(request) was called for this request
  response,         \* the response dispatch returned
  bd_pc,            \* send_task: "idle", "streaming", "returned_early",
                    \*   "returned", "raised"
  bd_agent,         \* tool_context.state['agent']
  bd_n,             \* events consumed from the remote stream
  bd_response,      \* send_task's local list `response`
  bd_return,        \* the value send_task returned
  bd_ctx,           \* tool_context: actions' flags and saved artifacts
  bd_err,           \* the exception send_task raised
  bd_terminal       \* history: some consumed event had a terminal state

agentVars ==
  <<waiting_sessions, pc, sid, nev, depth, content, frame, fresult, chunks, err, cb>>
mwVars ==
  <<mw_pc, card_security, public_paths, a2a_auth, request, access_token,
    verifier_result, verifier_calls, forwarded, response>>
bdVars ==
  <<bd_pc, bd_agent, bd_n, bd_response, bd_return, bd_ctx, bd_err, bd_terminal>>
vars == <<agentVars, mwVars, bdVars>>

\* Python dicts as functions on their keys.
EmptyDict == [k \in {} |-> None]
DictSet(d, k, v) == [x \in DOMAIN d \cup {k} |-> IF x = k THEN v ELSE d[x]]
DictDel(d, k) == [x \in DOMAIN d \ {k} |-> d[x]]

\* agent.py:168: the locals of a fresh _process_events frame (<<>>: None).
NoFrame == [fcid |-> None, token |-> None, redirect_uri |-> <<>>]

\* new_message of run_async: the user's query (agent.py:154-156) or the
\* function response of a resume (agent.py:233-244).
NoContent ==
  [kind |-> "none", id |-> None, name |-> None, auth_response_uri |-> None,
   redirect_uri |-> <<>>]
QueryContent == [NoContent EXCEPT !.kind = "query"]

\* The future created by stream s in its frame at nesting d.
Future(s, d) == [owner |-> s, gen |-> d]

\* A detection by the function call's name alone.
get_auth_request_function_call_by_name(e) ==
  IF e.fcname # None /\ e.fcname = Marker THEN e.fcid ELSE None

\* helpers.py:5-17: the function call of the event when it is the marker call
\* and its id is a long-running tool id; None otherwise.
get_auth_request_function_call(e) ==
  IF e.fcname # None /\ e.fcname = Marker /\ e.longrun THEN e.fcid ELSE None

\* agent.py:183: redirect_uri = f'{self._card.url}authenticate'
RedirectUri == <<CardUrl, "authenticate">>

\* An authorization URI without the redirect_uri parameter.
AuthRequestUriBare(t) == <<"https://idp/auth?state=", t>>

\* agent.py:180,187: base_auth_uri + f'&redirect_uri={redirect_uri}'
AuthRequestUri(t) ==
  <<"https://idp/auth?state=", t>> \o <<"&redirect_uri=">> \o RedirectUri

\* agent.py:192-196
InputRequiredChunk(t) ==
  [is_task_complete |-> FALSE, input_required |-> TRUE,
   updates |-> <<"Authorization is required to continue. Visit ">> \o AuthRequestUri(t),
   content |-> None]

\* agent.py:200-215
FinalChunk(e) ==
  [is_task_complete |-> TRUE, input_required |-> FALSE, updates |-> <<>>,
   content |-> IF e.text # None THEN e.text ELSE ""]

\* agent.py:217-220
ProgressChunk ==
  [is_task_complete |-> FALSE, input_required |-> FALSE,
   updates |-> <<"Processing the request...">>, content |-> None]

AgentInit ==
  /\ waiting_sessions = EmptyDict
  /\ pc = [s \in Streams |-> "idle"]
  /\ sid = [s \in Streams |-> None]
  /\ nev = 0
  /\ depth = [s \in Streams |-> 0]
  /\ content = [s \in Streams |-> NoContent]
  /\ frame = [s \in Streams |-> NoFrame]
  /\ fresult = [s \in Streams |-> None]
  /\ chunks = [s \in Streams |-> <<>>]
  /\ err = [s \in Streams |-> None]
  /\ cb = [token |-> None, result |-> "none"]

\* agent.py:149-171: stream(query, session_id) gets or creates the session,
\* builds the user content and enters _process_events, which calls
\* run_async; nothing is tested about other streams of the session.
Stream(s, session_id) ==
  /\ pc[s] = "idle"
  /\ pc' = [pc EXCEPT ![s] = "running"]
  /\ sid' = [sid EXCEPT ![s] = session_id]
  /\ content' = [content EXCEPT ![s] = QueryContent]
  /\ frame' = [frame EXCEPT ![s] = NoFrame]
  /\ UNCHANGED <<waiting_sessions, nev, depth, fresult, chunks, err, cb>>
  /\ UNCHANGED <<mwVars, bdVars>>

\* An extraction that tests the function call's id only.
ExtractionErrorIdOnly(e) == IF e.fcid = "" THEN "ValueError" ELSE None

\* agent.py:175-186: the exception the extraction raises, or None.
ExtractionError(e) ==
  IF e.fcid = "" THEN "ValueError"
  ELSE IF e.cfg = "noargs" THEN "ValueError"
  ELSE IF e.cfg = "nouri" THEN "ValueError"
  ELSE IF e.cfg = "nostate" THEN "KeyError"
  ELSE None

\* agent.py:173-197: the authorization-request branch.
Suspend(s, e) ==
  IF ExtractionError(e) # None
  THEN /\ pc' = [pc EXCEPT ![s] = "failed"]
       /\ err' = [err EXCEPT ![s] = ExtractionError(e)]
       /\ UNCHANGED <<waiting_sessions, frame, fresult, chunks>>
  ELSE /\ waiting_sessions' =
            DictSet(waiting_sessions, e.token, Future(s, depth[s]))
       /\ frame' = [frame EXCEPT ![s] =
            [fcid |-> e.fcid, token |-> e.token, redirect_uri |-> RedirectUri]]
       /\ fresult' = [fresult EXCEPT ![s] = None]
       /\ chunks' = [chunks EXCEPT ![s] = Append(@, InputRequiredChunk(e.token))]
       /\ pc' = [pc EXCEPT ![s] = "awaiting"]
       /\ UNCHANGED err

\* agent.py:199-220: the final-response and progress branches.
Emit(s, e) ==
  /\ chunks' = [chunks EXCEPT ![s] =
       Append(@, IF e.final THEN FinalChunk(e) ELSE ProgressChunk)]
  /\ UNCHANGED <<waiting_sessions, pc, frame, fresult, err>>

\* agent.py:169-220: one iteration of the loop over run_async's events.
ProcessEvent(s, e) ==
  /\ pc[s] = "running"
  /\ nev < MaxEvents
  /\ nev' = nev + 1
  /\ IF get_auth_request_function_call(e) # None
     THEN Suspend(s, e)
     ELSE Emit(s, e)
  /\ UNCHANGED <<sid, depth, content, cb>>
  /\ UNCHANGED <<mwVars, bdVars>>

\* agent.py:169,222: run_async is exhausted and no future was created: the
\* generator (and every enclosing one) returns.
EndOfEvents(s) ==
  /\ pc[s] = "running"
  /\ pc' = [pc EXCEPT ![s] = "ended"]
  /\ UNCHANGED <<waiting_sessions, sid, nev, depth, content, frame, fresult, chunks, err, cb>>
  /\ UNCHANGED <<mwVars, bdVars>>

\* A handle_auth that looks the token up with dict.get and returns silently
\* when there is no entry.
handle_auth_silent(t, u) ==
  IF t \notin DOMAIN waiting_sessions
  THEN /\ cb' = [token |-> t, result |-> "ok"]
       /\ UNCHANGED fresult
  ELSE LET f == waiting_sessions[t] IN
       IF pc[f.owner] = "awaiting" /\ depth[f.owner] = f.gen /\ fresult[f.owner] = None
       THEN /\ fresult' = [fresult EXCEPT ![f.owner] = u]
            /\ cb' = [token |-> t, result |-> "ok"]
       ELSE /\ cb' = [token |-> t, result |-> "InvalidStateError"]
            /\ UNCHANGED fresult

\* A handle_auth whose future takes a new result when it already has one.
handle_auth_overwrite(t, u) ==
  IF t \notin DOMAIN waiting_sessions
  THEN /\ cb' = [token |-> t, result |-> "KeyError"]
       /\ UNCHANGED fresult
  ELSE LET f == waiting_sessions[t] IN
       IF pc[f.owner] = "awaiting" /\ depth[f.owner] = f.gen
       THEN /\ fresult' = [fresult EXCEPT ![f.owner] = u]
            /\ cb' = [token |-> t, result |-> "ok"]
       ELSE /\ cb' = [token |-> t, result |-> "InvalidStateError"]
            /\ UNCHANGED fresult

\* agent.py:124-126: handle_auth(session_id, auth_response_uri).  The lookup
\* raises KeyError for an unknown token; Future.set_result raises
\* InvalidStateError on a future that already has a result or was cancelled.
handle_auth(t, u) ==
  IF t \notin DOMAIN waiting_sessions
  THEN /\ cb' = [token |-> t, result |-> "KeyError"]
       /\ UNCHANGED fresult
  ELSE LET f == waiting_sessions[t] IN
       IF pc[f.owner] = "awaiting" /\ depth[f.owner] = f.gen /\ fresult[f.owner] = None
       THEN /\ fresult' = [fresult EXCEPT ![f.owner] = u]
            /\ cb' = [token |-> t, result |-> "ok"]
       ELSE /\ cb' = [token |-> t, result |-> "InvalidStateError"]
            /\ UNCHANGED fresult

HandleAuth(t, u) ==
  /\ handle_auth(t, u)
  /\ UNCHANGED <<waiting_sessions, pc, sid, nev, depth, content, frame, chunks, err>>
  /\ UNCHANGED <<mwVars, bdVars>>

\* A resume that leaves the entry in the registry.
DelWaitingSkipped(ws, t) == ws

\* agent.py:225: del self._waiting_sessions[state_token]
DelWaiting(ws, t) == DictDel(ws, t)

\* A function response that always answers the executor's first call.
AuthContentFirstCall(fcid, auth_response_uri, redirect_uri) ==
  [kind |-> "function_response", id |-> "f1", name |-> Marker,
   auth_response_uri |-> auth_response_uri, redirect_uri |-> redirect_uri]

\* agent.py:227-244: auth_content, the FunctionResponse for the pending
\* call carrying the auth_config updated with the two URIs.
AuthContent(fcid, auth_response_uri, redirect_uri) ==
  [kind |-> "function_response", id |-> fcid, name |-> Marker,
   auth_response_uri |-> auth_response_uri, redirect_uri |-> redirect_uri]

\* agent.py:222-246: the future has a result: the loop wakes up, removes its
\* token's entry (KeyError when there is none), builds the function response
\* and re-enters _process_events one level deeper.
Resume(s) ==
  /\ pc[s] = "awaiting"
  /\ fresult[s] # None
  /\ IF frame[s].token \notin DOMAIN waiting_sessions
     THEN /\ pc' = [pc EXCEPT ![s] = "failed"]
          /\ err' = [err EXCEPT ![s] = "KeyError"]
          /\ UNCHANGED <<waiting_sessions, depth, content, frame, fresult>>
     ELSE /\ waiting_sessions' = DelWaiting(waiting_sessions, frame[s].token)
          /\ content' = [content EXCEPT ![s] =
               AuthContent(frame[s].fcid, fresult[s], frame[s].redirect_uri)]
          /\ depth' = [depth EXCEPT ![s] = @ + 1]
          /\ frame' = [frame EXCEPT ![s] = NoFrame]
          /\ fresult' = [fresult EXCEPT ![s] = None]
          /\ pc' = [pc EXCEPT ![s] = "running"]
          /\ UNCHANGED err
  /\ UNCHANGED <<sid, nev, chunks, cb>>
  /\ UNCHANGED <<mwVars, bdVars>>

\* The delegation caller abandons the stream while the loop is suspended in
\* `await future` (agent.py:223): the consuming task is cancelled, the
\* cancellation cancels the awaited future and CancelledError leaves the
\* generator.  There is no try/finally or except around agent.py:189-225, so
\* nothing of it runs on the way out.
Abandon(s) ==
  /\ pc[s] = "awaiting"
  /\ fresult[s] = None
  /\ pc' = [pc EXCEPT ![s] = "cancelled"]
  /\ UNCHANGED <<waiting_sessions, sid, nev, depth, content, frame, fresult, chunks, err, cb>>
  /\ UNCHANGED <<mwVars, bdVars>>

Next ==
  \/ \E s \in Streams : \E x \in SessionChoices(s) : Stream(s, x)
  \/ \E s \in Streams : Abandon(s)
  \/ \E s \in Streams, e \in Events : ProcessEvent(s, e)
  \/ \E s \in Streams : EndOfEvents(s)
  \/ \E t \in Tokens, u \in Uris : HandleAuth(t, u)
  \/ \E s \in Streams : Resume(s)

(***************************************************************************)
(* Part 2.  OAuth2Middleware                                               *)
(***************************************************************************)

\* Security requirements an agent card may list (MaxReqs of them at most).
MaxReqs == 2
ScopeNames == {"read", "write"}
Paths == {"/.well-known/agent.json", "/"}

\* A security requirement is a dict scheme name -> scopes, in insertion
\* order; "oauth2" and "oauth2b" are OAuth2 client-credentials schemes of the
\* card's securitySchemes, "apiKey" is not.
Entry(n, sc) == [name |-> n, scopes |-> sc]
Requirements ==
  {<<>>,
   <<Entry("oauth2", <<"read">>)>>,
   <<Entry("oauth2", <<"read", "write">>)>>,
   <<Entry("oauth2b", <<"write">>)>>,
   <<Entry("oauth2b", <<>>)>>,
   <<Entry("apiKey", <<>>)>>,
   <<Entry("oauth2", <<"read">>), Entry("oauth2b", <<"write">>)>>}
SupportedScheme(n) == n \in {"oauth2", "oauth2b"}

\* AgentCard.security: absent (None) or a list of requirements.
SeqsUpTo(S, n) == UNION {[1..k -> S] : k \in 0..n}
Securities ==
  {[present |-> FALSE, reqs |-> <<>>]}
    \cup {[present |-> TRUE, reqs |-> r] : r \in SeqsUpTo(Requirements, MaxReqs)}

\* An Authorization header value, in pieces; the scheme prefix "Bearer "
\* (with its space) is one piece.
HeaderValues ==
  {<<>>, <<"Basic ", "dXNlcg==">>, <<"bearer ", "tokA">>, <<"Bearer">>,
   <<"Bearer ", "tokA">>,
   <<"Bearer ", "tokB">>, <<"Bearer ", "tokA", "Bearer ", "tokB">>}
Requests ==
  {[path |-> p, has_auth |-> FALSE, auth |-> <<>>, accept |-> a] :
      p \in Paths, a \in {"", "text/event-stream"}}
    \cup {[path |-> p, has_auth |-> TRUE, auth |-> h, accept |-> a] :
      p \in Paths, h \in HeaderValues, a \in {"", "text/event-stream"}}

\* What verify_access_token can do: raise, or return the token's claims, whose
\* `scope` claim (when there is one) is a space-separated string.
VerifierErrors == {"invalid signature", "token expired", "wrong audience"}
ScopeClaims ==
  {<<>>, <<"read">>, <<"write">>, <<"read", " ", "write">>,
   <<"write", " ", "read">>, <<"admin">>, <<"read", " ", "admin">>}
VerifierResults ==
  {[kind |-> "error", error |-> e, has_scope |-> FALSE, scope |-> <<>>] :
      e \in VerifierErrors}
    \cup {[kind |-> "payload", error |-> "", has_scope |-> FALSE, scope |-> <<>>]}
    \cup {[kind |-> "payload", error |-> "", has_scope |-> TRUE, scope |-> c] :
      c \in ScopeClaims}
NoVerifierResult == [kind |-> "none", error |-> "", has_scope |-> FALSE, scope |-> <<>>]

NoRequest == [path |-> "", has_auth |-> FALSE, auth |-> <<>>, accept |-> ""]
NoReason == [text |-> "", scopes |-> <<>>, detail |-> ""]
NoResponse == [status_code |-> 0, media_type |-> "", error |-> "", reason |-> NoReason]
\* The response of the downstream application (call_next).
Downstream == [NoResponse EXCEPT !.media_type = "downstream"]

\* self.a2a_auth = {} ; {'required_scopes': scopes}
NoAuth == [set |-> FALSE, required_scopes |-> <<>>]
RequiredScopes(sc) == [set |-> TRUE, required_scopes |-> sc]

\* oauth2_middleware.py:40-52: the inner loop over one requirement's items,
\* from item k on; acc is a2a_auth so far.  "NotImplementedError" for a
\* scheme that is not OAuth2 client credentials.
RECURSIVE InitItems(_, _, _)
InitItems(req, k, acc) ==
  IF k > Len(req) THEN [error |-> "", auth |-> acc]
  ELSE IF ~SupportedScheme(req[k].name)
       THEN [error |-> "NotImplementedError", auth |-> acc]
       ELSE InitItems(req, k + 1, RequiredScopes(req[k].scopes))

\* oauth2_middleware.py:34-52: the loop over agent_card.security or [].
RECURSIVE InitRequirements(_, _, _)
InitRequirements(reqs, i, acc) ==
  IF i > Len(reqs) THEN [error |-> "", auth |-> acc]
  ELSE IF reqs[i] = <<>> THEN [error |-> "", auth |-> acc]
  ELSE LET r == InitItems(reqs[i], 1, acc) IN
       IF r.error # "" THEN r ELSE InitRequirements(reqs, i + 1, r.auth)

\* oauth2_middleware.py:22-52: OAuth2Middleware.__init__
Construct ==
  /\ mw_pc = "new"
  /\ LET r == InitRequirements(IF card_security.present THEN card_security.reqs ELSE <<>>,
                               1, NoAuth) IN
       /\ a2a_auth' = r.auth
       /\ mw_pc' = IF r.error = "" THEN "ready" ELSE "init_failed"
  /\ UNCHANGED <<card_security, public_paths, request, access_token,
                 verifier_result, verifier_calls, forwarded, response>>
  /\ UNCHANGED <<agentVars, bdVars>>

\* str.startswith('Bearer ')
StartsWithBearer(h) == Len(h) >= 1 /\ h[1] = "Bearer "

\* oauth2_middleware.py:68: auth_header.split('Bearer ')[1], for a header that
\* starts with 'Bearer ': what lies between the first and the second
\* occurrence of the separator.
RECURSIVE UpToBearer(_, _)
UpToBearer(h, k) ==
  IF k > Len(h) \/ h[k] = "Bearer " THEN <<>>
  ELSE <<h[k]>> \o UpToBearer(h, k + 1)
AccessToken(h) == UpToBearer(h, 2)

\* A _forbidden that answers 401.
ForbiddenAs401(reason, req) ==
  [status_code |-> 401,
   media_type |-> IF req.accept = "text/event-stream"
                  THEN "text/event-stream" ELSE "application/json",
   error |-> "forbidden", reason |-> reason]

\* oauth2_middleware.py:91-113: _forbidden / _unauthorized render the
\* rejection as plain text for a client that accepts an event stream, as JSON
\* otherwise.
Rejection(code, error, reason, req) ==
  [status_code |-> code,
   media_type |-> IF req.accept = "text/event-stream"
                  THEN "text/event-stream" ELSE "application/json",
   error |-> error, reason |-> reason]
Unauthorized(reason, req) == Rejection(401, "unauthorized", reason, req)
Forbidden(reason, req) == Rejection(403, "forbidden", reason, req)

\* An allow-list that applies only to services without a requirement.
AdmittedAnonymousOnly(req) == req.path \in public_paths /\ ~a2a_auth.set

\* oauth2_middleware.py:58
Admitted(req) == req.path \in public_paths \/ ~a2a_auth.set

\* A header check that tests only for presence, not for the Bearer scheme.
BadHeaderPresenceOnly(req) == ~req.has_auth \/ req.auth = <<>>

\* oauth2_middleware.py:62-63
BadHeader(req) == ~req.has_auth \/ req.auth = <<>> \/ ~StartsWithBearer(req.auth)

\* oauth2_middleware.py:54-68: dispatch up to the call of the verifier.
Dispatch(req) ==
  /\ mw_pc = "ready"
  /\ request' = req
  /\ verifier_calls' = 0
  /\ verifier_result' = NoVerifierResult
  /\ IF Admitted(req)
     THEN /\ forwarded' = TRUE /\ response' = Downstream
          /\ access_token' = <<>> /\ mw_pc' = "ready"
     ELSE IF BadHeader(req)
     THEN /\ forwarded' = FALSE
          /\ response' = Unauthorized(
               [NoReason EXCEPT !.text = "Missing or malformed Authorization header."], req)
          /\ access_token' = <<>> /\ mw_pc' = "ready"
     ELSE /\ forwarded' = FALSE /\ response' = NoResponse
          /\ access_token' = AccessToken(req.auth) /\ mw_pc' = "verifying"
  /\ UNCHANGED <<card_security, public_paths, a2a_auth>>
  /\ UNCHANGED <<agentVars, bdVars>>

\* oauth2_middleware.py:75: payload.get('scope', '').split()
GrantedScopes(v) ==
  IF v.has_scope THEN SelectSeq(v.scope, LAMBDA x : x # " ") ELSE <<>>

Elems(q) == {q[i] : i \in 1..Len(q)}

\* A scope check that reports every required scope once one is missing.
MissingScopesAll(required, scopes) ==
  IF \E i \in 1..Len(required) : required[i] \notin Elems(scopes)
  THEN required ELSE <<>>

\* oauth2_middleware.py:76-80
MissingScopes(required, scopes) ==
  SelectSeq(required, LAMBDA x : x \notin Elems(scopes))

\* oauth2_middleware.py:70-89: the verifier answers; dispatch rejects or
\* forwards the request.
Verify(v) ==
  /\ mw_pc = "verifying"
  /\ verifier_calls' = verifier_calls + 1
  /\ verifier_result' = v
  /\ IF v.kind = "error"
     THEN /\ forwarded' = FALSE
          /\ response' = Forbidden(
               [NoReason EXCEPT !.text = "Authentication failed: ", !.detail = v.error],
               request)
     ELSE LET missing == MissingScopes(a2a_auth.required_scopes, GrantedScopes(v)) IN
          IF missing # <<>>
          THEN /\ forwarded' = FALSE
               /\ response' = Forbidden(
                    [NoReason EXCEPT !.text = "Missing required scopes: ",
                                     !.scopes = missing], request)
          ELSE /\ forwarded' = TRUE /\ response' = Downstream
  /\ mw_pc' = "ready"
  /\ UNCHANGED <<card_security, public_paths, a2a_auth, request, access_token>>
  /\ UNCHANGED <<agentVars, bdVars>>

(***************************************************************************)
(* Part 3.  The birthday agent's delegation client (send_task)             *)
(***************************************************************************)

\* Events the remote stream may deliver to one send_task call.
MaxRemoteEvents == 2
\* Parts of one status message.
MaxParts == 1

\* Names of self.remote_agent_connections, and a name that is not one.
RemoteAgents == {"Calendar Agent"}
AgentNames == RemoteAgents \cup {"Weather Agent"}

\* A2A parts (TextPart, DataPart, FilePart with base64 bytes).
NoFile == [name |-> "", mimeType |-> "", bytes |-> <<>>]
TextPart(x) == [type |-> "text", text |-> x, data |-> "", file |-> NoFile]
DataPartOf(d) == [type |-> "data", text |-> "", data |-> d, file |-> NoFile]
FilePart(n, m, b) ==
  [type |-> "file", text |-> "", data |-> "",
   file |-> [name |-> n, mimeType |-> m, bytes |-> b]]
Parts ==
  {TextPart("Authorize at https://idp/auth"),
   TextPart("Booked"),
   DataPartOf("form"),
   FilePart("cake.png", "image/png", <<"a", "G", "k", "=">>),
   FilePart("card.png", "image/png", <<"e", "W", "8", "x">>)}

\* What convert_part returns: a str (part.text) or a dict (part.data); key
\* is for a DataPart(data={key: value}), which no run of the code returns.
NoValue == [kind |-> "none", key |-> "", value |-> ""]
Str(x) == [kind |-> "str", key |-> "", value |-> x]
Dict(d) == [kind |-> "dict", key |-> "", value |-> d]

\* The tool context: its actions' flags and the artifacts saved through it.
NoActions == [skip_summarization |-> FALSE, escalate |-> FALSE]
Escalated == [skip_summarization |-> TRUE, escalate |-> TRUE]
Context(a, s) == [actions |-> a, artifacts |-> s]

\* agent.py:233-252: convert_part(part, tool_context); the result is the
\* exception raised (if any), the value returned and the tool context after.
\* The module never imports base64 (agent.py:1-29), so line 242 raises
\* NameError for every file part and lines 243-251 (save_artifact, the
\* flags, the DataPart reference) never run; line 252 reads the undefined
\* name p.
convert_part(part, ctx) ==
  IF part.type = "text" THEN [error |-> "", value |-> Str(part.text), ctx |-> ctx]
  ELSE IF part.type = "data" THEN [error |-> "", value |-> Dict(part.data), ctx |-> ctx]
  ELSE IF part.type = "file" THEN [error |-> "NameError", value |-> NoValue, ctx |-> ctx]
  ELSE [error |-> "NameError", value |-> NoValue, ctx |-> ctx]

\* agent.py:226-230: the loop of convert_parts from part k on, rval so far.
RECURSIVE ConvertFrom(_, _, _, _)
ConvertFrom(parts, k, rval, ctx) ==
  IF k > Len(parts) THEN [error |-> "", value |-> rval, ctx |-> ctx]
  ELSE LET r == convert_part(parts[k], ctx) IN
       IF r.error # "" THEN [error |-> r.error, value |-> <<>>, ctx |-> r.ctx]
       ELSE ConvertFrom(parts, k + 1, Append(rval, r.value), r.ctx)

convert_parts(parts, ctx) == ConvertFrom(parts, 1, <<>>, ctx)

\* sresp.result of the remote stream: a TaskStatusUpdateEvent (has_status)
\* with a TaskState and an optional message, or a result without a status
\* (a TaskArtifactUpdateEvent, or None).  No result has an attribute named
\* `attributes`, so agent.py:221-223 never runs.
TaskStates == {"working", "input-required", "completed", "failed"}
TerminalStates == {"completed", "failed", "canceled"}
Messages == UNION {[1..k -> Parts] : k \in 0..MaxParts}
StatusUpdate(st, hm, ps) ==
  [has_status |-> TRUE, state |-> st, has_message |-> hm, parts |-> ps]
NoStatus == [has_status |-> FALSE, state |-> "", has_message |-> FALSE, parts |-> <<>>]
RemoteEvents ==
  {StatusUpdate(st, TRUE, ps) : st \in TaskStates, ps \in Messages}
    \cup {StatusUpdate(st, FALSE, <<>>) : st \in TaskStates}
    \cup {NoStatus}

BdIdle ==
  /\ bd_pc = "idle"
  /\ bd_agent = None
  /\ bd_n = 0
  /\ bd_response = <<>>
  /\ bd_return = <<>>
  /\ bd_ctx = Context(NoActions, <<>>)
  /\ bd_err = None
  /\ bd_terminal = FALSE

\* agent.py:160-210: send_task up to `response = []`.
SendTask(agent_name) ==
  /\ bd_pc = "idle"
  /\ IF agent_name \notin RemoteAgents
     THEN /\ bd_pc' = "raised"
          /\ bd_err' = "ValueError"
          /\ UNCHANGED bd_agent
     ELSE /\ bd_pc' = "streaming"
          /\ bd_agent' = agent_name
          /\ UNCHANGED bd_err
  /\ bd_response' = <<>>
  /\ UNCHANGED <<bd_n, bd_return, bd_ctx, bd_terminal>>
  /\ UNCHANGED <<agentVars, mwVars>>

\* agent.py:214-218: the input-required branch.
OnInputRequired(e) ==
  IF ~e.has_message
  THEN /\ bd_pc' = "raised"
       /\ bd_err' = "AttributeError"
       /\ bd_ctx' = Context(Escalated, bd_ctx.artifacts)
       /\ UNCHANGED <<bd_response, bd_return>>
  ELSE LET r == convert_parts(e.parts, Context(Escalated, bd_ctx.artifacts)) IN
       /\ bd_ctx' = r.ctx
       /\ UNCHANGED bd_response
       /\ IF r.error # ""
          THEN bd_pc' = "raised" /\ bd_err' = r.error /\ UNCHANGED bd_return
          ELSE bd_pc' = "returned_early" /\ bd_return' = r.value /\ UNCHANGED bd_err

\* agent.py:219-220: the parts of a status message are collected.
Collect(e) ==
  IF ~e.has_message
  THEN UNCHANGED <<bd_pc, bd_err, bd_ctx, bd_response, bd_return>>
  ELSE LET r == convert_parts(e.parts, bd_ctx) IN
       /\ bd_ctx' = r.ctx
       /\ UNCHANGED bd_return
       /\ IF r.error # ""
          THEN bd_pc' = "raised" /\ bd_err' = r.error /\ UNCHANGED bd_response
          ELSE bd_response' = bd_response \o r.value /\ UNCHANGED <<bd_pc, bd_err>>

\* agent.py:211-223: one iteration of the loop over the remote stream.
Receive(e) ==
  /\ bd_pc = "streaming"
  /\ bd_n < MaxRemoteEvents
  /\ bd_n' = bd_n + 1
  /\ bd_terminal' = (bd_terminal \/ (e.has_status /\ e.state \in TerminalStates))
  /\ IF ~e.has_status
     THEN UNCHANGED <<bd_pc, bd_err, bd_ctx, bd_response, bd_return>>
     ELSE IF e.state = "input-required"
          THEN OnInputRequired(e)
          ELSE Collect(e)
  /\ UNCHANGED bd_agent
  /\ UNCHANGED <<agentVars, mwVars>>

\* A send_task that returns nothing unless a terminal state was seen.
ReturnedAtEndIfTerminal(collected) == IF bd_terminal THEN collected ELSE <<>>

\* agent.py:224: return response
ReturnedAtEnd(collected) == collected

\* agent.py:211,224: the remote stream is exhausted.
StreamClosed ==
  /\ bd_pc = "streaming"
  /\ bd_pc' = "returned"
  /\ bd_return' = ReturnedAtEnd(bd_response)
  /\ UNCHANGED <<bd_agent, bd_n, bd_response, bd_ctx, bd_err, bd_terminal>>
  /\ UNCHANGED <<agentVars, mwVars>>

MwIdle ==
  /\ mw_pc = "new"
  /\ a2a_auth = NoAuth
  /\ request = NoRequest
  /\ access_token = <<>>
  /\ verifier_result = NoVerifierResult
  /\ verifier_calls = 0
  /\ forwarded = FALSE
  /\ response = NoResponse

Init ==
  /\ AgentInit
  /\ MwIdle
  /\ BdIdle
  /\ card_security = [present |-> FALSE, reqs |-> <<>>]
  /\ public_paths = {}

Spec == Init /\ [][Next]_vars

\* The middleware of any agent card and public allow-list, serving requests.
MwInit ==
  /\ AgentInit
  /\ MwIdle
  /\ BdIdle
  /\ BdIdle
  /\ card_security \in Securities
  /\ public_paths \in {{}, {"/.well-known/agent.json"}}

MwNext ==
  \/ Construct
  \/ \E req \in Requests : Dispatch(req)
  \/ \E v \in VerifierResults : Verify(v)

MwSpec == MwInit /\ [][MwNext]_vars

\* One send_task call of the birthday agent against any remote stream.
BdNext ==
  \/ \E a \in AgentNames : SendTask(a)
  \/ \E e \in RemoteEvents : Receive(e)
  \/ StreamClosed

BdSpec == Init /\ [][BdNext]_vars

(***************************************************************************)
(* Claims about the suspension loop                                        *)
(***************************************************************************)

IsTerminal(c) == c.is_task_complete
IsInputRequired(c) == c.input_required
CountTerminal(q) == Cardinality({i \in 1..Len(q) : IsTerminal(q[i])})

\* Stream s takes its resume step (agent.py:222-246) in this step.
Resumes(s) == pc[s] = "awaiting" /\ pc'[s] \in {"running", "failed"}
\* A callback gives the future of stream s its result in this step.
Delivered(s) == fresult[s] = None /\ fresult'[s] # None

\* C1: a callback for a token with a live suspension leaves the entry in the
\* registry (it is present before and right after the callback); the step in
\* which the suspended loop resumes ends with the token absent and changes no
\* other entry; and an entry leaves the registry only in the resume step of a
\* loop suspended on that token, so it is removed once and not re-added by
\* the resume.
C1_EntryRemovedOnceOnResume ==
  [][ /\ \A s \in Streams : Delivered(s) =>
           /\ frame[s].token \in DOMAIN waiting_sessions
           /\ waiting_sessions' = waiting_sessions
      /\ \A s \in Streams : Resumes(s) =>
           /\ frame[s].token \notin DOMAIN waiting_sessions'
           /\ \A t \in Tokens \ {frame[s].token} :
                /\ (t \in DOMAIN waiting_sessions') = (t \in DOMAIN waiting_sessions)
                /\ t \in DOMAIN waiting_sessions => waiting_sessions'[t] = waiting_sessions[t]
      /\ \A t \in DOMAIN waiting_sessions \ DOMAIN waiting_sessions' :
           \E s \in Streams :
             Resumes(s) /\ frame[s].token = t /\ fresult[s] # None
    ]_vars

\* C1 witness: a loop has resumed after a callback and its entry is gone.
C1_Witness ==
  \E s \in Streams :
    /\ pc[s] = "running" /\ depth[s] = 1
    /\ content[s].kind = "function_response"
    /\ waiting_sessions = EmptyDict

\* C2: a callback for a token with no registry entry fails with KeyError at
\* the callback's invoker, and changes neither the registry, nor any loop
\* (no future gets a result, no loop moves), nor any caller's chunks or
\* error.
C2_UnknownTokenCallback ==
  [][ cb' # cb =>
        /\ (cb'.token \notin DOMAIN waiting_sessions) = (cb'.result = "KeyError")
        /\ cb'.result = "KeyError" =>
              UNCHANGED <<waiting_sessions, pc, depth, content, frame, fresult,
                          chunks, err>>
    ]_vars

\* C2 witness: a late callback, after the loop resumed and removed the entry,
\* was refused.
C2_Witness ==
  /\ cb.result = "KeyError"
  /\ \E s \in Streams : depth[s] = 1 /\ pc[s] = "running"
  /\ waiting_sessions = EmptyDict

\* C3: a suspension under a token that already has a live entry fails, and
\* the registry keeps mapping the token to the first suspension's future: no
\* loop suspends on a live token, and no live entry is replaced.
C3_DuplicateTokenRejected ==
  [][ /\ \A s \in Streams :
           (pc[s] = "running" /\ pc'[s] = "awaiting") =>
             frame'[s].token \notin DOMAIN waiting_sessions
      /\ \A t \in DOMAIN waiting_sessions \cap DOMAIN waiting_sessions' :
           waiting_sessions'[t] = waiting_sessions[t]
    ]_vars

\* C4: a stream that ended without ever suspending (no authorization
\* request in its events) has yielded exactly one terminal chunk and has
\* left no entry in the registry.
C4_OneTerminalChunk ==
  \A s \in Streams :
    (pc[s] = "ended" /\ depth[s] = 0) =>
      /\ CountTerminal(chunks[s]) = 1
      /\ \A t \in DOMAIN waiting_sessions : waiting_sessions[t].owner # s

\* C5: a callback for token t gives its result to every loop that is
\* suspended on t after its input-required chunk, so that the loop resumes;
\* and when the first event of the resumed executor is its final response,
\* the chunk that follows the input-required chunk is the terminal chunk
\* carrying that response.
C5_CallbackResumesLoop ==
  [][ /\ (cb' # cb /\ cb'.result = "ok") =>
           \A s \in Streams :
             (/\ pc[s] = "awaiting" /\ frame[s].token = cb'.token
              /\ fresult[s] = None
              /\ IsInputRequired(chunks[s][Len(chunks[s])]))
             => fresult'[s] # None
      /\ \A s \in Streams, e \in Events :
           (/\ ProcessEvent(s, e)
            /\ e.final /\ get_auth_request_function_call(e) = None
            /\ depth[s] > 0 /\ chunks[s] # <<>>
            /\ IsInputRequired(chunks[s][Len(chunks[s])]))
           => /\ Len(chunks'[s]) = Len(chunks[s]) + 1
              /\ chunks'[s][Len(chunks'[s])].is_task_complete
              /\ chunks'[s][Len(chunks'[s])].content
                   = (IF e.text = None THEN "" ELSE e.text)
    ]_vars

\* C6: a stream that has ended has delivered a terminal chunk or an
\* input-required chunk (a stream that failed delivered its failure).
C6_StreamDeliversOutcome ==
  \A s \in Streams :
    pc[s] = "ended" =>
      \E i \in 1..Len(chunks[s]) :
        IsTerminal(chunks[s][i]) \/ IsInputRequired(chunks[s][i])

\* C16: a loop's resume leaves every entry that is not its own as it was,
\* in particular the entry of a fresh suspension that reused its token; and
\* a callback gives its result only to the suspension the registry held for
\* the token when it was delivered.
C16_ResumeSparesFreshEntry ==
  [][ /\ \A s \in Streams : Delivered(s) =>
           /\ cb'.token \in DOMAIN waiting_sessions
           /\ waiting_sessions[cb'.token] = Future(s, depth[s])
      /\ \A s \in Streams : Resumes(s) =>
           \A t \in DOMAIN waiting_sessions :
             waiting_sessions[t] # Future(s, depth[s]) =>
               /\ t \in DOMAIN waiting_sessions'
               /\ waiting_sessions'[t] = waiting_sessions[t]
    ]_vars

\* Stream s starts an executor invocation (run_async) in this step.
StartsRun(s) == pc[s] # "running" /\ pc'[s] = "running"

\* C17: no executor invocation is started for a session while another
\* invocation of that session is suspended awaiting authorization.
C17_OneInvocationPerSession ==
  [][ \A s \in Streams : StartsRun(s) =>
        \A o \in Streams \ {s} :
          ~(pc[o] = "awaiting" /\ sid[o] = sid'[s])
    ]_vars

\* C18: no registry entry belongs to a stream its caller has abandoned: the
\* entry a suspended stream created is removed when the caller leaves.
C18_NoEntryOutlivesStream ==
  \A t \in DOMAIN waiting_sessions :
    pc[waiting_sessions[t].owner] # "cancelled"

\* The event is an authorization request whose function call lacks the
\* authorization configuration, the authorization URI, or the URI's state
\* parameter.
Malformed(e) ==
  /\ e.fcname = Marker /\ e.longrun /\ e.fcid # ""
  /\ e.cfg \in {"noargs", "nouri", "nostate"}

\* C19: on a malformed authorization request the stream ends with an error
\* at its caller (a ValueError for a missing configuration or URI, a
\* KeyError for a missing state parameter); the step creates no registry
\* entry and yields no chunk, and a failed stream stays failed: it reads no
\* further event, yields nothing more and is not re-entered.
C19_MalformedRequestFails ==
  [][ /\ \A s \in Streams, e \in {x \in Events : Malformed(x)} :
           ProcessEvent(s, e) =>
             /\ pc'[s] = "failed"
             /\ err'[s] = (IF e.cfg = "nostate" THEN "KeyError" ELSE "ValueError")
             /\ waiting_sessions' = waiting_sessions
             /\ chunks' = chunks
      /\ \A s \in Streams : pc[s] = "failed" =>
           /\ pc'[s] = "failed" /\ err'[s] = err[s]
           /\ chunks'[s] = chunks[s] /\ depth'[s] = depth[s]
    ]_vars

\* C19 witness: a stream failed with KeyError on its authorization request
\* (no state parameter) having yielded nothing, and the registry is empty.
C19_Witness ==
  \E s \in Streams :
    /\ pc[s] = "failed" /\ err[s] = "KeyError"
    /\ depth[s] = 0 /\ chunks[s] = <<>>
    /\ waiting_sessions = EmptyDict

\* The last pieces of a text are the authorization URI with state t,
\* followed by the redirect_uri parameter: the card's URL and "authenticate".
EndsWithAuthUri(text, t) ==
  /\ Len(text) >= 5
  /\ SubSeq(text, Len(text) - 4, Len(text)) =
       <<"https://idp/auth?state=", t, "&redirect_uri=", CardUrl, "authenticate">>

\* C20: on a well-formed authorization request the loop adds exactly one
\* entry, under the URI's state token and for its own future, and yields
\* exactly one chunk, not complete and input-required, whose text ends with
\* the authorization URI and the redirect URI; from then on, as long as its
\* future has no result, it yields no chunk and starts no executor call, and
\* its future gets a result only by a successful callback for that token.
C20_SuspendRegistersAndWaits ==
  [][ /\ \A s \in Streams, e \in AuthEventsOk :
           ProcessEvent(s, e) =>
             /\ DOMAIN waiting_sessions' = DOMAIN waiting_sessions \cup {e.token}
             /\ waiting_sessions'[e.token] = Future(s, depth[s])
             /\ \A t \in DOMAIN waiting_sessions \ {e.token} :
                  waiting_sessions'[t] = waiting_sessions[t]
             /\ Len(chunks'[s]) = Len(chunks[s]) + 1
             /\ SubSeq(chunks'[s], 1, Len(chunks[s])) = chunks[s]
             /\ ~chunks'[s][Len(chunks'[s])].is_task_complete
             /\ chunks'[s][Len(chunks'[s])].input_required
             /\ EndsWithAuthUri(chunks'[s][Len(chunks'[s])].updates, e.token)
             /\ \A o \in Streams \ {s} : chunks'[o] = chunks[o]
             /\ pc'[s] = "awaiting" /\ fresult'[s] = None
      /\ \A s \in Streams :
           (pc[s] = "awaiting" /\ fresult[s] = None) =>
             /\ chunks'[s] = chunks[s]
             /\ pc'[s] # "running"
             /\ content'[s] = content[s] /\ depth'[s] = depth[s]
             /\ \A e \in Events : ~ProcessEvent(s, e)
             /\ fresult'[s] # None =>
                  (cb'.token = frame[s].token /\ cb'.result = "ok")
    ]_vars

\* C20 witness: a stream is suspended on t2 after its input-required chunk,
\* its entry is in the registry and no callback has come.
C20_Witness ==
  \E s \in Streams :
    /\ pc[s] = "awaiting" /\ fresult[s] = None
    /\ frame[s].token = "t2"
    /\ "t2" \in DOMAIN waiting_sessions
    /\ waiting_sessions["t2"] = Future(s, depth[s])
    /\ Len(chunks[s]) = 1
    /\ chunks[s][1].input_required
    /\ cb.result = "none"

\* C21: a suspension keeps the id of the function call that asked for
\* authorization; a callback's URI goes to the suspension registered under
\* the callback's token; and the resume re-enters the executor with a
\* function response for that id carrying that URI and the redirect URI
\* (card URL, "authenticate"), after which the frame's locals are fresh, so a
\* later suspension of the stream is answered with its own call's id.
C21_ResumeAnswersOwnCall ==
  [][ /\ \A s \in Streams, e \in AuthEventsOk :
           ProcessEvent(s, e) =>
             (frame'[s].fcid = e.fcid /\ frame'[s].token = e.token)
      /\ \A s \in Streams : Delivered(s) =>
           \E u \in Uris :
             HandleAuth(frame[s].token, u) /\ fresult'[s] = u
      /\ \A s \in Streams :
           (pc[s] = "awaiting" /\ pc'[s] = "running") =>
             /\ content'[s].kind = "function_response"
             /\ content'[s].name = "adk_request_credential"
             /\ content'[s].id = frame[s].fcid
             /\ content'[s].auth_response_uri = fresult[s]
             /\ content'[s].redirect_uri = <<CardUrl, "authenticate">>
             /\ frame'[s].fcid = None /\ fresult'[s] = None
      /\ \A s \in Streams :
           pc[s] = "awaiting" => (pc'[s] = "running" \/ frame'[s] = frame[s])
    ]_vars

\* C21 witness: a stream suspended twice in succession and its second
\* resume answered the call f2 with the URI cb2.
C21_Witness ==
  \E s \in Streams :
    /\ depth[s] = 2 /\ pc[s] = "running"
    /\ Len(chunks[s]) = 2
    /\ chunks[s][1].input_required /\ chunks[s][2].input_required
    /\ content[s].id = "f2"
    /\ content[s].auth_response_uri = "cb2"

\* C22: the nesting of loop invocations does not grow with the number of
\* suspensions: a stream that has resumed once (its loop is nested in the
\* first invocation) is never nested deeper by a later resume.
C22_BoundedNesting ==
  [][ \A s \in Streams : depth[s] >= 1 => depth'[s] <= depth[s] ]_vars

HasTerminal(q) == \E i \in 1..Len(q) : q[i].is_task_complete

\* C23: once a stream has yielded a terminal chunk it yields no further
\* chunk and no registry entry is created or replaced for it.
C23_DoneIsTerminal ==
  [][ \A s \in Streams : HasTerminal(chunks[s]) =>
        /\ chunks'[s] = chunks[s]
        /\ \A t \in DOMAIN waiting_sessions' :
             waiting_sessions'[t].owner = s =>
               (t \in DOMAIN waiting_sessions
                  /\ waiting_sessions[t] = waiting_sessions'[t])
    ]_vars

\* The event has a function call named adk_request_credential whose id is
\* among the event's long-running tool ids.
IsAuthRequest(e) == e.fcname = "adk_request_credential" /\ e.longrun
\* ... and that call has an id, a configuration and a URI with a state.
WellFormed(e) == e.cfg = "ok" /\ e.fcid # ""

\* C24: the loop suspends on an event only if the event is an authorization
\* request (marker name and long-running id), and does suspend on every such
\* event that is well formed; any other event, the marker call with an id
\* that is not long-running included, leaves the stream running and the
\* registry as it was and yields one ordinary chunk: the terminal chunk for
\* a final response, the progress chunk otherwise.
C24_SuspendsOnMarkedLongRunning ==
  [][ \A s \in Streams, e \in Events :
        ProcessEvent(s, e) =>
          /\ pc'[s] = "awaiting" => IsAuthRequest(e)
          /\ (IsAuthRequest(e) /\ WellFormed(e)) =>
               (pc'[s] = "awaiting" /\ e.token \in DOMAIN waiting_sessions')
          /\ ~IsAuthRequest(e) =>
               /\ pc'[s] = "running"
               /\ waiting_sessions' = waiting_sessions
               /\ Len(chunks'[s]) = Len(chunks[s]) + 1
               /\ ~chunks'[s][Len(chunks'[s])].input_required
               /\ chunks'[s][Len(chunks'[s])].is_task_complete = e.final
    ]_vars

\* C24 witness: a final event with the marker call, not long-running, was
\* answered with its terminal chunk; the stream goes on and the registry is
\* empty.
C24_Witness ==
  \E s \in Streams :
    /\ pc[s] = "running"
    /\ Len(chunks[s]) = 1
    /\ chunks[s][1].is_task_complete
    /\ chunks[s][1].content = "Sign in"
    /\ waiting_sessions = EmptyDict

\* C25: a callback for a token whose suspension already has a callback's URI
\* and has not resumed yet is refused with InvalidStateError and changes
\* nothing; a URI a loop has received stays until the loop resumes, the
\* resume hands exactly that URI to the executor, and it resumes once: the
\* result is consumed, the loop is one level deeper and its token has left
\* the registry.
C25_SecondCallbackRefused ==
  [][ /\ \A t \in Tokens, u \in Uris :
           (/\ HandleAuth(t, u)
            /\ t \in DOMAIN waiting_sessions
            /\ pc[waiting_sessions[t].owner] = "awaiting"
            /\ depth[waiting_sessions[t].owner] = waiting_sessions[t].gen
            /\ fresult[waiting_sessions[t].owner] # None)
           => /\ cb'.result = "InvalidStateError"
              /\ UNCHANGED <<waiting_sessions, pc, depth, content, frame,
                             fresult, chunks, err>>
      /\ \A s \in Streams : fresult[s] # None =>
           \/ fresult'[s] = fresult[s]
           \/ /\ pc[s] = "awaiting" /\ pc'[s] = "running"
              /\ content'[s].auth_response_uri = fresult[s]
              /\ fresult'[s] = None
              /\ depth'[s] = depth[s] + 1
              /\ frame[s].token \notin DOMAIN waiting_sessions'
    ]_vars

\* C25 witness: the latest callback, for the token of a suspended loop that
\* holds the URI cb1 and whose entry is in the registry, was refused.
C25_Witness ==
  \E s \in Streams :
    /\ pc[s] = "awaiting" /\ fresult[s] = "cb1"
    /\ frame[s].token \in DOMAIN waiting_sessions
    /\ waiting_sessions[frame[s].token] = Future(s, depth[s])
    /\ cb.token = frame[s].token
    /\ cb.result = "InvalidStateError"

\* C26: the registry's keys are exactly the tokens of the suspended loops,
\* and each key maps to the future of the loop suspended on it: every entry
\* has its waiting loop and every waiting loop has its entry.
C26_RegistryConsistent ==
  /\ \A t \in DOMAIN waiting_sessions :
       LET f == waiting_sessions[t] IN
         /\ pc[f.owner] = "awaiting"
         /\ depth[f.owner] = f.gen
         /\ frame[f.owner].token = t
  /\ \A s \in Streams : pc[s] = "awaiting" =>
       /\ frame[s].token \in DOMAIN waiting_sessions
       /\ waiting_sessions[frame[s].token] = Future(s, depth[s])

(***************************************************************************)
(* Claims about the middleware                                             *)
(***************************************************************************)

\* A dispatch has been started for `request`.
Dispatched == request # NoRequest
\* The card lists security requirements and none of them is the empty one.
AdvertisesRequirement ==
  /\ card_security.present
  /\ card_security.reqs # <<>>
  /\ \A i \in 1..Len(card_security.reqs) : card_security.reqs[i] # <<>>
\* The card lists no security requirement (none at all, or only empty ones).
AdvertisesNoRequirement ==
  \/ ~card_security.present
  \/ \A i \in 1..Len(card_security.reqs) : card_security.reqs[i] = <<>>
ProtectedRequest ==
  Dispatched /\ request.path \notin public_paths /\ AdvertisesRequirement
\* The Authorization header is "Bearer " followed by a token.
CarriesBearerToken ==
  /\ request.has_auth
  /\ Len(request.auth) >= 2
  /\ request.auth[1] = "Bearer "
  /\ request.auth[2] # "Bearer "

C8_VerifierFailureForbidden ==
  (ProtectedRequest /\ CarriesBearerToken /\ verifier_result.kind = "error") =>
    /\ mw_pc = "ready"
    /\ response.status_code = 403
    /\ response.status_code # 401
    /\ ~forwarded

\* C8 witness: the verifier reported an expired token and the answer is 403.
C8_Witness ==
  /\ ProtectedRequest /\ CarriesBearerToken
  /\ verifier_result.kind = "error" /\ verifier_result.error = "token expired"
  /\ response.status_code = 403

\* The scopes of the verified token's `scope` claim.
TokenScopes ==
  IF verifier_result.has_scope
  THEN {x \in Elems(verifier_result.scope) : x # " "} ELSE {}
\* The scopes the middleware requires.
RequiredScopeSet == Elems(a2a_auth.required_scopes)

\* C9: a protected request whose token verified is forwarded exactly when
\* every required scope is among the token's scopes; otherwise it is answered
\* 403 with a reason that lists exactly the required scopes the token lacks.
C9_ScopesDecideAdmission ==
  (ProtectedRequest /\ verifier_result.kind = "payload") =>
    /\ mw_pc = "ready"
    /\ forwarded = (RequiredScopeSet \subseteq TokenScopes)
    /\ ~forwarded =>
         /\ response.status_code = 403
         /\ response.reason.text = "Missing required scopes: "
         /\ Elems(response.reason.scopes) = RequiredScopeSet \ TokenScopes

\* C9 witness: of two required scopes the token has one; the rejection names
\* the other.
C9_Witness ==
  /\ ProtectedRequest /\ verifier_result.kind = "payload"
  /\ a2a_auth.required_scopes = <<"read", "write">>
  /\ TokenScopes = {"read"}
  /\ response.status_code = 403
  /\ response.reason.scopes = <<"write">>

\* C10: a request to a path of the public allow-list, and any request to a
\* service that lists no security requirement, is forwarded whatever its
\* Authorization header, without any call of the verifier.
C10_PublicAndAnonymousAdmitted ==
  (Dispatched /\ (request.path \in public_paths \/ AdvertisesNoRequirement)) =>
    /\ mw_pc = "ready"
    /\ forwarded
    /\ response = Downstream
    /\ verifier_calls = 0

\* C10 witness: a request without a header to a public path of a service
\* that requires scopes was forwarded.
C10_Witness ==
  /\ Dispatched /\ request.path \in public_paths /\ ~request.has_auth
  /\ a2a_auth.set
  /\ forwarded

\* The first scheme of the first requirement the card lists.
FirstAdvertisedScheme == card_security.reqs[1][1]

\* C11: when the card lists several requirements or schemes, the scopes the
\* constructed middleware requires of every request are those of the first
\* scheme of the list, not those of a later scheme and not a combination.
C11_FirstSchemeScopes ==
  (mw_pc = "ready" /\ AdvertisesRequirement) =>
    /\ a2a_auth.set
    /\ a2a_auth.required_scopes = FirstAdvertisedScheme.scopes

\* C12: the answer to a protected request whose verification raised carries
\* a fixed reason only: nothing of the verifier's error is in it, so two
\* requests that differ in that error alone get the same answer.
C12_RejectionHidesVerifierError ==
  (ProtectedRequest /\ CarriesBearerToken /\ verifier_result.kind = "error") =>
    /\ response.status_code = 403
    /\ response.reason.detail \notin VerifierErrors

(***************************************************************************)
(* Claims about the delegation client                                      *)
(***************************************************************************)

\* What the executor is to see for a part: the text, the data, or a
\* reference to the stored file.
ExpectedValue(p) ==
  IF p.type = "text" THEN [kind |-> "str", key |-> "", value |-> p.text]
  ELSE IF p.type = "data" THEN [kind |-> "dict", key |-> "", value |-> p.data]
  ELSE [kind |-> "DataPart", key |-> "artifact-file-id", value |-> p.file.name]
ExpectedValues(ps) == [i \in 1..Len(ps) |-> ExpectedValue(ps[i])]
HasFilePart(e) == \E i \in 1..Len(e.parts) : e.parts[i].type = "file"

\* C13: on an input-required event with a status message send_task sets
\* both escalation flags and returns the converted parts of that event's
\* message only, nothing of what it had collected before; once it has
\* returned it consumes no further event.
C13_InputRequiredReturnsAtOnce ==
  [][ /\ \A e \in RemoteEvents :
          (Receive(e) /\ e.has_status /\ e.has_message
             /\ e.state = "input-required") =>
            /\ bd_ctx'.actions.skip_summarization
            /\ bd_ctx'.actions.escalate
            /\ bd_pc' = "returned_early"
            /\ bd_return' = ExpectedValues(e.parts)
      /\ bd_pc = "returned_early" =>
            (bd_n' = bd_n /\ bd_return' = bd_return /\ bd_pc' = bd_pc)
    ]_vars

Base64Alphabet ==
  <<"A", "B", "C", "D", "E", "F", "G", "H", "I", "J", "K", "L", "M", "N", "O", "P",
    "Q", "R", "S", "T", "U", "V", "W", "X", "Y", "Z", "a", "b", "c", "d", "e", "f",
    "g", "h", "i", "j", "k", "l", "m", "n", "o", "p", "q", "r", "s", "t", "u", "v",
    "w", "x", "y", "z", "0", "1", "2", "3", "4", "5", "6", "7", "8", "9", "+", "/">>
\* base64 of up to three bytes, as one padded group of four characters.
B64Encode(d) ==
  LET n == Len(d)
      byte(i) == IF i <= n THEN d[i] ELSE 0
      bits == (byte(1) * 256 + byte(2)) * 256 + byte(3)
      ch(k) == Base64Alphabet[((bits \div (64 ^ (4 - k))) % 64) + 1]
  IN  <<ch(1), ch(2), IF n >= 2 THEN ch(3) ELSE "=", IF n >= 3 THEN ch(4) ELSE "=">>

\* C15: when send_task converts a status message, every file part of it
\* named n with encoded bytes b leaves an artifact saved under n whose data
\* are the bytes b encodes, and the value handed on for that part is the
\* reference {artifact-file-id: n}, with nothing of the bytes in it.
C15_FileStoredAndReferenced ==
  [][ \A e \in RemoteEvents :
        (Receive(e) /\ e.has_status /\ e.has_message) =>
          \A i \in 1..Len(e.parts) :
            e.parts[i].type = "file" =>
              /\ \E k \in 1..Len(bd_ctx'.artifacts) :
                    /\ bd_ctx'.artifacts[k].filename = e.parts[i].file.name
                    /\ B64Encode(bd_ctx'.artifacts[k].data) = e.parts[i].file.bytes
              /\ LET out == IF e.state = "input-required"
                            THEN bd_return' ELSE bd_response' IN
                    /\ Len(out) >= Len(e.parts)
                    /\ out[Len(out) - Len(e.parts) + i] =
                         [kind |-> "DataPart", key |-> "artifact-file-id",
                          value |-> e.parts[i].file.name]
    ]_vars
====
